---- MODULE Spec2Model ----
(***************************************************************************)
(* HR payroll backend: employee records, daily attendance marking and      *)
(* monthly salary slips, in its four service variants:                     *)
(*   "body"   credentials in the request body   (src/unnamed/part_001)     *)
(*   "header" identity in the x-user-email header (src/unnamed/part_002)   *)
(*   "cookie" identity in the userEmail cookie  (src/unnamed/part_003)     *)
(*   "open"   no authentication                 (src/backend/index.js)     *)
(*                                                                         *)
(* The stores are the two MongoDB collections.  A request handler is one   *)
(* action (specification Spec); the handlers whose interleavings matter    *)
(* are also given step by step, one action per store round trip            *)
(* (specification SpecConc).                                               *)
(*                                                                         *)
(* Time: an instant is a number of ticks, TicksPerDay ticks to the day,    *)
(* counted in the server's local calendar from 1 January 1970.  Tick 0 of  *)
(* a day is 00:00:00.000 and tick TicksPerDay-1 is 23:59:59.999.           *)
(* Money: amounts in responses are in hundredths of the currency unit.     *)
(***************************************************************************)
EXTENDS Integers, Sequences, FiniteSets, TLC

VARIABLES
    variant,     \* which service variant is running
    employees,   \* the Employee collection: a set of documents
    attendance,  \* the Attendance collection: documents in insertion order
    nextId,      \* the next ObjectId the store hands out
    cookie,      \* the client's cookie jar: the userEmail cookie, "" if none
    last,        \* the request just served and its response, until it is delivered
    procs,       \* requests in flight (step-by-step handlers only)
    scope        \* which requests the clients send (fixed by the initial state)

vars == <<variant, employees, attendance, nextId, cookie, last, procs, scope>>

(***************************************************************************)
(* Bounds of the model.                                                    *)
(***************************************************************************)
TicksPerDay == 3
MaxAtt == 2
MaxId == 3

(***************************************************************************)
(* Program constants.                                                      *)
(***************************************************************************)
DefaultSalary == 30000
SalaryDivisor == 30

Variants == {"body", "header", "cookie", "open"}

(***************************************************************************)
(* The calendar behind JavaScript's Date in local time.                    *)
(***************************************************************************)
LastTick == TicksPerDay - 1

IsLeap(y) == (y % 4 = 0 /\ y % 100 # 0) \/ y % 400 = 0

\* mi is a month index, 0..11
DaysInMonth(y, mi) ==
    IF mi = 1 THEN (IF IsLeap(y) THEN 29 ELSE 28)
    ELSE IF mi \in {3, 5, 8, 10} THEN 30 ELSE 31

RECURSIVE DaysBeforeMonth(_, _)
DaysBeforeMonth(y, mi) ==
    IF mi = 0 THEN 0 ELSE DaysBeforeMonth(y, mi - 1) + DaysInMonth(y, mi - 1)

DaysBeforeYear(y) ==
    365 * (y - 1970) + ((y - 1969) \div 4) - ((y - 1901) \div 100)
        + ((y - 1601) \div 400)

\* new Date(y, mi, d, ...): a month index outside 0..11 carries into the year
\* and a day outside the month carries into the neighbouring months.
MakeDate(y, mi, d, tick) ==
    LET yy == y + (mi \div 12)
        mm == mi % 12
    IN (DaysBeforeYear(yy) + DaysBeforeMonth(yy, mm) + d - 1) * TicksPerDay + tick

DayOf(ts) == ts \div TicksPerDay

Years == 2020..2030

GetFullYear(ts) ==
    CHOOSE y \in Years : DaysBeforeYear(y) <= DayOf(ts) /\ DayOf(ts) < DaysBeforeYear(y + 1)

GetMonth(ts) ==
    LET y == GetFullYear(ts)
        n == DayOf(ts) - DaysBeforeYear(y)
    IN CHOOSE mi \in 0..11 :
           DaysBeforeMonth(y, mi) <= n /\ n < DaysBeforeMonth(y, mi) + DaysInMonth(y, mi)

GetDate(ts) ==
    LET y == GetFullYear(ts)
    IN DayOf(ts) - DaysBeforeYear(y) - DaysBeforeMonth(y, GetMonth(ts)) + 1

startOfMonth(y, m) == MakeDate(y, m - 1, 1, 0)

\* The month's last day at midnight instead of its last instant.
endOfMonthMidnight(y, m) == MakeDate(y, m, 0, 0)

endOfMonth(y, m) == MakeDate(y, m, 0, LastTick)

\* A date kept with its time of day.
startOfDayKeepsTime(date) == date

startOfDay(date) == date - (date % TicksPerDay)

endOfDay(date) == startOfDay(date) + LastTick

\* Math.round(num / den) for den > 0: halves go up.
MathRound(num, den) == (2 * num + den) \div (2 * den)

(***************************************************************************)
(* Documents, requests and responses.                                      *)
(*                                                                         *)
(* An Employee document: _id, the login identifier (username in the body   *)
(* variant, email in the others: field username), password, role, the      *)
(* monthly salary (salary / monthlySalary: field salary) and empId (body   *)
(* variant only, "" elsewhere).  An Attendance document: employee (an      *)
(* ObjectId), date, status.  A request field that is absent is "" (a       *)
(* string), 0 (an id, a salary: both falsy in JavaScript), NoDate or, for  *)
(* month and year, Absent (+undefined is NaN).                             *)
(***************************************************************************)
NoDate == 0 - 1

\* A date string that new Date() cannot parse: an Invalid Date.
BadDate == 0 - 2

Absent == 0 - 1

NoEmp == [id |-> 0, username |-> "", password |-> "", role |-> "", salary |-> 0, empId |-> ""]

NoReq ==
    [username |-> "", password |-> "", employeeId |-> 0, date |-> NoDate, status |-> "",
     month |-> Absent, year |-> Absent, name |-> "", username_new |-> "", password_new |-> "",
     salary |-> 0, empId |-> "", role |-> ""]

\* res.status(status).json({ok: false, error}) and its variants; a handler
\* fills in the rest.  ran: the route handler (past the middleware) ran;
\* role: the role of the user the middleware resolved; events: what the
\* handler did to the response, in order.  user: the Employee document the
\* body is about; password: the password the body carries, "" when the
\* document was read with select('-password') or the body has none.
Resp(status, error) ==
    [status |-> status, kind |-> "json", error |-> error, ran |-> FALSE, role |-> "",
     events |-> <<>>, presentDays |-> 0 - 1, calculatedSalary |-> 0 - 1,
     totalDaysInMonth |-> 0 - 1, docs |-> <<>>, user |-> NoEmp, password |-> ""]

World(emps, atts, nid, ck) == [emps |-> emps, atts |-> atts, nextId |-> nid, cookie |-> ck]

Out(w, resp) == [w |-> w, resp |-> resp]

(***************************************************************************)
(* The store: the Mongoose calls the handlers make.                        *)
(***************************************************************************)
findOne(emps, Cond(_)) ==
    IF \E e \in emps : Cond(e) THEN CHOOSE e \in emps : Cond(e) ELSE NoEmp

findById(emps, id) == findOne(emps, LAMBDA e : e.id = id)

\* Attendance documents matching {employee, date: {$gte: from, $lte: to}}
Matching(atts, employee, from, to) ==
    {i \in 1..Len(atts) :
        atts[i].employee = employee /\ from <= atts[i].date /\ atts[i].date <= to}

\* A count that takes every record of the range, whatever its status.
countDocumentsAnyStatus(atts, employee, from, to, status) ==
    Cardinality(Matching(atts, employee, from, to))

countDocuments(atts, employee, from, to, status) ==
    Cardinality({i \in Matching(atts, employee, from, to) : atts[i].status = status})

RECURSIVE Without(_, _)
Without(atts, employee) ==
    IF atts = <<>> THEN <<>>
    ELSE IF Head(atts).employee = employee THEN Without(Tail(atts), employee)
    ELSE <<Head(atts)>> \o Without(Tail(atts), employee)

deleteMany(atts, employee) == Without(atts, employee)

\* Attendance.find(query).sort({date: -1})
RECURSIVE SortDateDesc(_)
SortDateDesc(docs) ==
    IF docs = <<>> THEN <<>>
    ELSE LET i == CHOOSE i \in 1..Len(docs) :
                      \A j \in 1..Len(docs) :
                          docs[j].date < docs[i].date \/ (docs[j].date = docs[i].date /\ i <= j)
             rest == [k \in 1..(Len(docs) - 1) |-> IF k < i THEN docs[k] ELSE docs[k + 1]]
         IN <<docs[i]>> \o SortDateDesc(rest)

RECURSIVE Pick(_, _)
Pick(atts, idx) ==
    IF atts = <<>> THEN <<>>
    ELSE (IF Len(atts) \in idx THEN Pick(SubSeq(atts, 1, Len(atts) - 1), idx) \o <<atts[Len(atts)]>>
          ELSE Pick(SubSeq(atts, 1, Len(atts) - 1), idx))

find(atts, employee, from, to) == Pick(atts, Matching(atts, employee, from, to))

(***************************************************************************)
(* The unique index {employee: 1, date: 1} that the body variant declares  *)
(* on Attendance; the other variants declare none.                         *)
(***************************************************************************)
\* The attendance collection with no index declared on it.
NoUniqueIndex(v) == FALSE

AttendanceUniqueIndex(v) == v = "body"

\* Whether writing doc at position i (0: as a new document) would put two
\* documents with the same key in the index.
DuplicateKey(atts, i, doc) ==
    \E j \in 1..Len(atts) :
        j # i /\ atts[j].employee = doc.employee /\ atts[j].date = doc.date

\* findOneAndUpdate(filter, update, {upsert: true, setDefaultsOnInsert: true}),
\* in the store's own steps.  First the query: the first matching document's
\* position, or 0.
\* An upsert whose query never matches: every mark inserts.
UpsertMatchNone(atts, filter) == 0

UpsertMatch(atts, filter) ==
    LET m == Matching(atts, filter.employee, filter.from, filter.to)
    IN IF m = {} THEN 0 ELSE CHOOSE i \in m : \A j \in m : i <= j

\* Then the write.  update holds employee, date and status; a status of ""
\* is undefined, which Mongoose leaves out of the update: the document keeps
\* its status, and a new document gets the schema default.
UpsertWrite(v, atts, i, update) ==
    LET doc == IF i = 0
               THEN [update EXCEPT !.status = IF update.status = "" THEN "present" ELSE update.status]
               ELSE [update EXCEPT !.status = IF update.status = "" THEN atts[i].status ELSE update.status]
    IN IF AttendanceUniqueIndex(v) /\ DuplicateKey(atts, i, doc)
       THEN [ok |-> FALSE, atts |-> atts, doc |-> doc, error |-> "E11000 duplicate key error"]
       ELSE [ok |-> TRUE,
             atts |-> IF i = 0 THEN Append(atts, doc) ELSE [atts EXCEPT ![i] = doc],
             doc |-> doc, error |-> ""]

\* An Invalid Date in the filter does not cast: the call throws before it
\* reaches the store.
findOneAndUpdate(v, atts, filter, update) ==
    IF update.date = BadDate
    THEN [ok |-> FALSE, atts |-> atts, doc |-> update, error |-> "Cast to date failed"]
    ELSE UpsertWrite(v, atts, UpsertMatch(atts, filter), update)

\* Bounds of "any date" for a query with no date filter.
MinInstant == NoDate
MaxInstant == MakeDate(2031, 0, 1, 0)

(***************************************************************************)
(* Body-credential variant (src/unnamed/part_001).                         *)
(***************************************************************************)
NoSlip ==
    [ok |-> FALSE, error |-> "Employee not found", employee |-> NoEmp, presentDays |-> 0 - 1,
     totalDaysInMonth |-> 0 - 1, calculatedSalary |-> 0 - 1]

\* A salary prorated over the days of the month instead of over 30.
calculateSalaryByMonthLength(w, employeeId, year, month) ==
    LET emp == findById(w.emps, employeeId)
        presentDays == countDocuments(w.atts, employeeId, startOfMonth(year, month),
                                      endOfMonth(year, month), "present")
        totalDaysInMonth == GetDate(MakeDate(year, month, 0, 0))
    IN IF emp = NoEmp
       THEN [ok |-> FALSE, error |-> "Employee not found", employee |-> NoEmp, presentDays |-> 0 - 1,
             totalDaysInMonth |-> 0 - 1, calculatedSalary |-> 0 - 1]
       ELSE [ok |-> TRUE, error |-> "", employee |-> emp, presentDays |-> presentDays,
             totalDaysInMonth |-> totalDaysInMonth,
             calculatedSalary |-> MathRound(emp.salary * presentDays * 100, totalDaysInMonth)]

\* calculatedSalary is Math.round(salary / 30 * presentDays * 100) / 100,
\* given here in hundredths.
calculateSalary(w, employeeId, year, month) ==
    LET emp == findById(w.emps, employeeId)
        from == startOfMonth(year, month)
        to == endOfMonth(year, month)
        presentDays == countDocuments(w.atts, employeeId, from, to, "present")
    IN IF emp = NoEmp THEN NoSlip
       ELSE [ok |-> TRUE, error |-> "", employee |-> emp, presentDays |-> presentDays,
             totalDaysInMonth |-> GetDate(MakeDate(year, month, 0, 0)),
             calculatedSalary |-> MathRound(emp.salary * presentDays * 100, SalaryDivisor)]

authenticate(w, req) ==
    IF req.username = "" \/ req.password = ""
    THEN [ok |-> FALSE, user |-> NoEmp,
          resp |-> Resp(401, "Username and password required in request body")]
    ELSE LET user == findOne(w.emps, LAMBDA e : e.username = req.username /\ e.password = req.password)
         IN IF user = NoEmp
            THEN [ok |-> FALSE, user |-> NoEmp, resp |-> Resp(401, "Invalid username or password")]
            ELSE [ok |-> TRUE, user |-> user, resp |-> Resp(0, "")]

\* A role check that lets every authenticated user through.
adminOnlyAnyRole(user) == [ok |-> TRUE, resp |-> Resp(0, "")]

adminOnly(user) ==
    IF user.role # "admin"
    THEN [ok |-> FALSE, resp |-> Resp(403, "Access denied. Admin privileges required.")]
    ELSE [ok |-> TRUE, resp |-> Resp(0, "")]

employeeOnly(user) ==
    IF user.role # "employee"
    THEN [ok |-> FALSE, resp |-> Resp(403, "Access denied. Employee access only.")]
    ELSE [ok |-> TRUE, resp |-> Resp(0, "")]

\* app.post(path, authenticate, adminOnly | employeeOnly, handler)
Chain(w, req, Only(_), Handler(_, _, _)) ==
    LET a == authenticate(w, req)
    IN IF ~a.ok THEN Out(w, a.resp)
       ELSE IF ~Only(a.user).ok THEN Out(w, [Only(a.user).resp EXCEPT !.role = a.user.role])
       ELSE LET o == Handler(w, req, a.user)
            IN Out(o.w, [o.resp EXCEPT !.ran = TRUE, !.role = a.user.role])

\* A login that looks the username up first and says so when it is unknown.
LoginUsernameFirst(w, req, role, error) ==
    IF req.username = "" \/ req.password = ""
    THEN Out(w, Resp(400, "Username and password required"))
    ELSE IF ~\E e \in w.emps : e.username = req.username
    THEN Out(w, Resp(401, "Unknown username"))
    ELSE IF ~\E e \in w.emps : e.username = req.username /\ e.password = req.password /\ e.role = role
    THEN Out(w, Resp(401, error))
    ELSE Out(w, [Resp(200, "") EXCEPT
                     !.user = CHOOSE e \in w.emps : e.username = req.username
                                                     /\ e.password = req.password /\ e.role = role])

\* POST /admin/login and POST /employee/login
Login(w, req, role, error) ==
    IF req.username = "" \/ req.password = ""
    THEN Out(w, Resp(400, "Username and password required"))
    ELSE LET u == findOne(w.emps, LAMBDA e : e.username = req.username
                                             /\ e.password = req.password /\ e.role = role)
         IN IF u = NoEmp THEN Out(w, Resp(401, error))
            ELSE Out(w, [Resp(200, "") EXCEPT !.user = u])

AdminLogin(w, req) == Login(w, req, "admin", "Invalid admin credentials")

EmployeeLogin(w, req) == Login(w, req, "employee", "Invalid employee credentials")

AdminEmployeesCreate(w, req, user) ==
    IF req.name = "" \/ req.username_new = "" \/ req.password_new = "" \/ req.empId = ""
    THEN Out(w, Resp(400, "Name, username_new, password_new, and empId are required for the new employee"))
    ELSE IF \E e \in w.emps : e.username = req.username_new \/ e.empId = req.empId
    THEN Out(w, Resp(400, "Username or Employee ID already exists"))
    ELSE LET newEmployee ==
                 [id |-> w.nextId, username |-> req.username_new, password |-> req.password_new,
                  role |-> "employee",
                  salary |-> IF req.salary = 0 THEN DefaultSalary ELSE req.salary,
                  empId |-> req.empId]
         IN Out([w EXCEPT !.emps = @ \cup {newEmployee}, !.nextId = @ + 1],
                [Resp(200, "") EXCEPT !.user = newEmployee, !.password = req.password_new])

AdminEmployeesList(w, req, user) == Out(w, Resp(200, ""))

AdminEmployeesGet(w, req, user) ==
    IF req.employeeId = 0 THEN Out(w, Resp(400, "Employee ID required"))
    ELSE IF findById(w.emps, req.employeeId) = NoEmp THEN Out(w, Resp(404, "Employee not found"))
    ELSE Out(w, [Resp(200, "") EXCEPT !.user = findById(w.emps, req.employeeId)])

\* The unique indexes of the Employee schema, on username and on empId: a
\* write that would leave doc beside another document with the same key
\* throws E11000.  old is the document being replaced, NoEmp on insert.
NoEmployeeIndex(emps, old, doc) == FALSE

EmployeeDuplicateKey(emps, old, doc) ==
    \E e \in emps \ {old} : e.username = doc.username \/ e.empId = doc.empId

AdminEmployeesUpdate(w, req, user) ==
    LET old == findById(w.emps, req.employeeId)
        updated ==
            [old EXCEPT !.username = IF req.username_new # "" THEN req.username_new ELSE @,
                        !.password = IF req.password_new # "" THEN req.password_new ELSE @,
                        !.salary = IF req.salary # 0 THEN req.salary ELSE @,
                        !.empId = IF req.empId # "" THEN req.empId ELSE @]
    IN IF req.employeeId = 0 THEN Out(w, Resp(400, "Employee ID required"))
       ELSE IF old = NoEmp THEN Out(w, Resp(404, "Employee not found"))
       ELSE IF EmployeeDuplicateKey(w.emps, old, updated)
       THEN Out(w, Resp(500, "E11000 duplicate key error"))
       ELSE Out([w EXCEPT !.emps = (@ \ {old}) \cup {updated}],
                [Resp(200, "") EXCEPT !.user = updated])

AdminEmployeesDelete(w, req, user) ==
    LET deleted == findById(w.emps, req.employeeId)
    IN IF req.employeeId = 0 THEN Out(w, Resp(400, "Employee ID required"))
       ELSE IF deleted = NoEmp THEN Out(w, Resp(404, "Employee not found"))
       ELSE Out([w EXCEPT !.emps = @ \ {deleted}, !.atts = deleteMany(@, req.employeeId)],
                Resp(200, ""))

\* The checks of /admin/attendance/mark that come before its first store
\* call: status 0 lets the request through.
AdminMarkCheck(req) ==
    IF req.employeeId = 0 \/ req.date = NoDate THEN Resp(400, "Employee ID and date required")
    ELSE IF req.status # "" /\ req.status \notin {"present", "absent"}
    THEN Resp(400, "Status must be either present or absent")
    ELSE Resp(0, "")

\* The filter of the upsert, the same in every variant: the employee and the
\* day of the date, from its first to its last instant.
MarkFilter(req) ==
    [employee |-> req.employeeId, from |-> startOfDay(req.date), to |-> endOfDay(req.date)]

\* The update document of the upsert.  Body variant: attendanceDate, the
\* start of the day, and status || 'present'.  Header and cookie variants:
\* d.setHours(...) has moved d to the last instant of its day by the time the
\* update document is built.  Unauthenticated variant: d as it came.
MarkUpdate(v, req) ==
    [employee |-> req.employeeId,
     date |-> IF req.date = BadDate THEN BadDate
              ELSE IF v = "body" THEN startOfDay(req.date)
              ELSE IF v = "open" THEN req.date ELSE endOfDay(req.date),
     status |-> IF v = "body" /\ req.status = "" THEN "present" ELSE req.status]

\* The response of a mark once the upsert r has returned or thrown.
MarkDone(w, r) ==
    IF ~r.ok THEN Out(w, Resp(500, r.error))
    ELSE Out([w EXCEPT !.atts = r.atts], [Resp(200, "") EXCEPT !.docs = <<r.doc>>])

AdminAttendanceMark(w, req, user) ==
    IF AdminMarkCheck(req).status # 0 THEN Out(w, AdminMarkCheck(req))
    ELSE IF findById(w.emps, req.employeeId) = NoEmp THEN Out(w, Resp(404, "Employee not found"))
    ELSE MarkDone(w, findOneAndUpdate("body", w.atts, MarkFilter(req), MarkUpdate("body", req)))

\* The attendance listing shared by /admin/attendance/view and
\* /employee/attendance: the month's documents when month and year are
\* given, all of the employee's otherwise.
AttendanceQuery(w, req, employeeId) ==
    LET from == IF req.month # Absent /\ req.year # Absent THEN startOfMonth(req.year, req.month) ELSE MinInstant
        to == IF req.month # Absent /\ req.year # Absent THEN endOfMonth(req.year, req.month) ELSE MaxInstant
    IN SortDateDesc(find(w.atts, employeeId, from, to))

AdminAttendanceView(w, req, user) ==
    IF req.employeeId = 0 THEN Out(w, Resp(400, "Employee ID required"))
    ELSE Out(w, [Resp(200, "") EXCEPT !.docs = AttendanceQuery(w, req, req.employeeId)])

\* res.json({ok: true, payslip}) after calculateSalary; a throw goes to the
\* handler's catch.
PayslipJson(w, employeeId, year, month) ==
    LET payslip == calculateSalary(w, employeeId, year, month)
    IN IF ~payslip.ok THEN Out(w, Resp(500, payslip.error))
       ELSE Out(w, [Resp(200, "") EXCEPT !.user = payslip.employee,
                                         !.password = payslip.employee.password,
                                         !.presentDays = payslip.presentDays,
                                         !.totalDaysInMonth = payslip.totalDaysInMonth,
                                         !.calculatedSalary = payslip.calculatedSalary])

\* A PDF route that starts the document before it has the payslip.
PayslipPdfHeadersFirst(w, employeeId, year, month) ==
    IF findById(w.emps, employeeId) = NoEmp
    THEN Out(w, [Resp(500, "Employee not found") EXCEPT
                     !.events = <<"setHeader", "pipe", "calculateSalary:throw", "json">>])
    ELSE Out(w, [Resp(200, "") EXCEPT
                     !.kind = "pdf",
                     !.events = <<"setHeader", "pipe", "calculateSalary", "text", "end">>,
                     !.user = findById(w.emps, employeeId)])

\* The PDF routes: calculateSalary, then the headers, doc.pipe(res), the
\* drawing calls and doc.end().
PayslipPdf(w, employeeId, year, month) ==
    LET payslip == calculateSalary(w, employeeId, year, month)
    IN IF ~payslip.ok
       THEN Out(w, [Resp(500, payslip.error) EXCEPT !.events = <<"calculateSalary:throw", "json">>])
       ELSE Out(w, [Resp(200, "") EXCEPT !.kind = "pdf",
                                         !.events = <<"calculateSalary", "setHeader", "pipe", "text", "end">>,
                                         !.user = payslip.employee,
                                         !.presentDays = payslip.presentDays,
                                         !.totalDaysInMonth = payslip.totalDaysInMonth,
                                         !.calculatedSalary = payslip.calculatedSalary])

AdminPayslipGenerate(w, req, user) ==
    IF req.employeeId = 0 \/ req.month = Absent \/ req.year = Absent
    THEN Out(w, Resp(400, "Employee ID, month, and year required"))
    ELSE PayslipJson(w, req.employeeId, req.year, req.month)

AdminPayslipPdf(w, req, user) ==
    IF req.employeeId = 0 \/ req.month = Absent \/ req.year = Absent
    THEN Out(w, [Resp(400, "Employee ID, month, and year required") EXCEPT !.events = <<"json">>])
    ELSE PayslipPdf(w, req.employeeId, req.year, req.month)

EmployeeMe(w, req, user) == Out(w, [Resp(200, "") EXCEPT !.user = findById(w.emps, user.id)])

\* An attendance listing that takes the employee from the request body when
\* the body names one.
EmployeeAttendanceOfBody(w, req, user) ==
    Out(w, [Resp(200, "") EXCEPT
                !.docs = AttendanceQuery(w, req, IF req.employeeId # 0 THEN req.employeeId ELSE user.id)])

EmployeeAttendance(w, req, user) ==
    Out(w, [Resp(200, "") EXCEPT !.docs = AttendanceQuery(w, req, user.id)])

EmployeePayslip(w, req, user) ==
    IF req.month = Absent \/ req.year = Absent THEN Out(w, Resp(400, "Month and year required"))
    ELSE PayslipJson(w, user.id, req.year, req.month)

EmployeePayslipPdf(w, req, user) ==
    IF req.month = Absent \/ req.year = Absent
    THEN Out(w, [Resp(400, "Month and year required") EXCEPT !.events = <<"json">>])
    ELSE PayslipPdf(w, user.id, req.year, req.month)

(***************************************************************************)
(* Header-identity and cookie-session variants (src/unnamed/part_002 and   *)
(* part_003: the same handlers behind a different auth middleware), and    *)
(* the unauthenticated variant (src/backend/index.js).                     *)
(***************************************************************************)
\* calculatedSalary is Math.round(monthlySalary * (presentCount / 30)), given
\* here in hundredths.  A year or month that is NaN makes from and to
\* Invalid Dates, which the count query refuses to cast.
calcSalaryForMonth(w, id, y, m) ==
    LET emp == findById(w.emps, id)
        from == startOfMonth(y, m)
        to == endOfMonth(y, m)
        presentCount == countDocuments(w.atts, id, from, to, "present")
    IN IF emp = NoEmp THEN NoSlip
       ELSE IF y = Absent \/ m = Absent THEN [NoSlip EXCEPT !.error = "Cast to date failed"]
       ELSE [ok |-> TRUE, error |-> "", employee |-> emp, presentDays |-> presentCount,
             totalDaysInMonth |-> 0 - 1,
             calculatedSalary |-> 100 * MathRound(emp.salary * presentCount, SalaryDivisor)]

\* auth: the caller's email is the x-user-email header (header variant) or
\* the userEmail cookie (cookie variant).
auth(w, email, error) ==
    IF email = "" THEN [ok |-> FALSE, user |-> NoEmp, resp |-> Resp(401, "not logged in")]
    ELSE LET user == findOne(w.emps, LAMBDA e : e.username = email)
         IN IF user = NoEmp THEN [ok |-> FALSE, user |-> NoEmp, resp |-> Resp(401, error)]
            ELSE [ok |-> TRUE, user |-> user, resp |-> Resp(0, "")]

authHeader(w, req) == auth(w, req.username, "invalid user")

authCookie(w, req) == auth(w, w.cookie, "invalid session")

\* app.get(path, auth, handler); the unauthenticated variant has no middleware.
Behind(v, w, req, Handler(_, _)) ==
    LET a == IF v = "header" THEN authHeader(w, req) ELSE authCookie(w, req)
    IN IF v = "open" THEN LET o == Handler(w, req) IN Out(o.w, [o.resp EXCEPT !.ran = TRUE])
       ELSE IF ~a.ok THEN Out(w, a.resp)
       ELSE LET o == Handler(w, req)
            IN Out(o.w, [o.resp EXCEPT !.ran = TRUE, !.role = a.user.role])

\* A store call that rejects.  Where a try/catch surrounds the call the
\* request is answered res.status(500).json({error: e.message}).  Where none
\* does, the promise of the async middleware or handler rejects with nobody
\* to take it: Express 4 drops the rejection and no response is ever sent,
\* Express 5 hands it to its default error handler, which answers 500 with
\* an HTML page.
Uncaught(e) == {[Resp(0, e) EXCEPT !.kind = "none"], [Resp(500, e) EXCEPT !.kind = "html"]}

\* authenticate (body variant, inside try/catch) and auth (header and cookie
\* variants, no try/catch) when Employee.findOne rejects
authStoreDown(v, w, req) ==
    IF v = "body"
    THEN IF req.username = "" \/ req.password = "" THEN {authenticate(w, req).resp}
         ELSE {Resp(500, "store call failed")}
    ELSE IF (IF v = "header" THEN req.username ELSE w.cookie) = ""
    THEN {Resp(401, "not logged in")}
    ELSE Uncaught("store call failed")

\* The employee listing when Employee.find rejects: /admin/employees/list
\* (body variant) and GET /employees of the unauthenticated variant catch
\* it, GET /employees of the header and cookie variants does not.
EmployeesListStoreDown(v) ==
    IF v \in {"body", "open"} THEN {[Resp(500, "store call failed") EXCEPT !.ran = TRUE]}
    ELSE {[r EXCEPT !.ran = TRUE] : r \in Uncaught("store call failed")}

\* POST /auth/login: the response carries the whole document; the cookie
\* variant also sets the userEmail cookie.
AuthLogin(v, w, req) ==
    LET user == findOne(w.emps, LAMBDA e : e.username = req.username /\ e.password = req.password)
    IN IF user = NoEmp THEN Out(w, Resp(401, "invalid email or password"))
       ELSE Out(IF v = "cookie" THEN [w EXCEPT !.cookie = user.username] ELSE w,
                [Resp(200, "") EXCEPT !.user = user, !.password = user.password])

\* A logout that leaves the cookie where it is.
AuthLogoutKeepsCookie(w, req) == Out(w, Resp(200, ""))

\* POST /auth/logout (cookie variant)
AuthLogout(w, req) == Out([w EXCEPT !.cookie = ""], Resp(200, ""))

\* GET /employees
EmployeesList(w, req) == Out(w, Resp(200, ""))

\* POST /employees (header variant)
EmployeesCreate(w, req) ==
    LET newEmp ==
            [id |-> w.nextId, username |-> req.username_new,
             password |-> IF req.password_new = "" THEN "emp123" ELSE req.password_new,
             role |-> IF req.role = "" THEN "employee" ELSE req.role,
             salary |-> IF req.salary = 0 THEN DefaultSalary ELSE req.salary,
             empId |-> ""]
    IN IF req.name = "" \/ req.username_new = "" THEN Out(w, Resp(400, "name and email required"))
       ELSE IF newEmp.role \notin {"admin", "employee"}
       THEN Out(w, Resp(500, "Employee validation failed"))
       ELSE IF \E e \in w.emps : e.username = newEmp.username
       THEN Out(w, Resp(500, "E11000 duplicate key error"))
       ELSE Out([w EXCEPT !.emps = @ \cup {newEmp}, !.nextId = @ + 1],
                [Resp(200, "") EXCEPT !.user = newEmp, !.password = newEmp.password])

\* DELETE /employees/:id (header variant)
EmployeesDeleteHeader(w, req) ==
    LET deleted == findById(w.emps, req.employeeId)
    IN IF deleted = NoEmp THEN Out(w, Resp(404, "Employee not found"))
       ELSE Out([w EXCEPT !.emps = @ \ {deleted}], Resp(200, ""))

\* PUT /employees/:id (unauthenticated variant): the request body is the
\* update, applied without validators
EmployeesUpdateOpen(w, req) ==
    LET old == findById(w.emps, req.employeeId)
        emp == [old EXCEPT !.role = IF req.role = "" THEN @ ELSE req.role,
                           !.salary = IF req.salary = 0 THEN @ ELSE req.salary]
    IN IF old = NoEmp THEN Out(w, Resp(404, "not found"))
       ELSE Out([w EXCEPT !.emps = (@ \ {old}) \cup {emp}],
                [Resp(200, "") EXCEPT !.user = emp, !.password = emp.password])

\* DELETE /employees/:id (unauthenticated variant)
EmployeesDeleteOpen(w, req) ==
    LET atts == deleteMany(w.atts, req.employeeId)
        emp == findById(w.emps, req.employeeId)
    IN IF emp = NoEmp THEN Out([w EXCEPT !.atts = atts], Resp(404, "not found"))
       ELSE Out([w EXCEPT !.atts = atts, !.emps = @ \ {emp}],
                [Resp(200, "") EXCEPT !.user = emp, !.password = emp.password])

\* POST /attendance
MarkCheck(req) ==
    IF req.employeeId = 0 \/ req.date = NoDate THEN Resp(400, "employee and date required")
    ELSE Resp(0, "")

AttendanceMark(v, w, req) ==
    IF MarkCheck(req).status # 0 THEN Out(w, MarkCheck(req))
    ELSE MarkDone(w, findOneAndUpdate(v, w.atts, MarkFilter(req), MarkUpdate(v, req)))

\* GET /attendance (unauthenticated variant), for one employee
AttendanceList(w, req) ==
    LET from == IF req.month # Absent /\ req.year # Absent THEN startOfMonth(req.year, req.month) ELSE MinInstant
        to == IF req.month # Absent /\ req.year # Absent THEN endOfMonth(req.year, req.month) ELSE MaxInstant
    IN Out(w, [Resp(200, "") EXCEPT !.docs = find(w.atts, req.employeeId, from, to)])

SlipJson(w, employeeId, year, month) ==
    LET slip == calcSalaryForMonth(w, employeeId, year, month)
    IN IF ~slip.ok THEN Out(w, Resp(500, slip.error))
       ELSE Out(w, [Resp(200, "") EXCEPT !.user = slip.employee,
                                         !.password = slip.employee.password,
                                         !.presentDays = slip.presentDays,
                                         !.calculatedSalary = slip.calculatedSalary])

\* calcSalaryForMonth, then the headers, the drawing calls, doc.end() and
\* doc.pipe(res).
SlipPdf(w, employeeId, year, month) ==
    LET slip == calcSalaryForMonth(w, employeeId, year, month)
    IN IF ~slip.ok
       THEN Out(w, [Resp(500, slip.error) EXCEPT !.events = <<"calcSalaryForMonth:throw", "json">>])
       ELSE Out(w, [Resp(200, "") EXCEPT !.kind = "pdf",
                                         !.events = <<"calcSalaryForMonth", "setHeader", "text", "end", "pipe">>,
                                         !.user = slip.employee,
                                         !.presentDays = slip.presentDays,
                                         !.calculatedSalary = slip.calculatedSalary])

\* GET /salary/generate
SalaryGenerate(w, req) ==
    IF req.employeeId = 0 \/ req.month = Absent \/ req.year = Absent
    THEN Out(w, Resp(400, "employeeId,month,year required"))
    ELSE SlipJson(w, req.employeeId, req.year, req.month)

\* GET /salary/pdf: the header and cookie variants go straight to the
\* calculation, the unauthenticated variant checks the fields first.
SalaryPdf(v, w, req) ==
    IF v = "open" /\ (req.employeeId = 0 \/ req.month = Absent \/ req.year = Absent)
    THEN Out(w, [Resp(400, "employeeId,month,year required") EXCEPT !.events = <<"json">>])
    ELSE SlipPdf(w, req.employeeId, req.year, req.month)

\* POST /seed-default (unauthenticated variant)
SeedAdmin ==
    [id |-> 0, username |-> "admin@pavakie.com", password |-> "admin123", role |-> "admin",
     salary |-> 50000, empId |-> ""]

SeedEmployee ==
    [id |-> 0, username |-> "employee@pavakie.com", password |-> "emp123", role |-> "employee",
     salary |-> 30000, empId |-> ""]

SaveIfMissing(w, doc) ==
    IF \E e \in w.emps : e.username = doc.username THEN w
    ELSE [w EXCEPT !.emps = @ \cup {[doc EXCEPT !.id = w.nextId]}, !.nextId = @ + 1]

SeedDefault(w, req) == Out(SaveIfMissing(SaveIfMissing(w, SeedAdmin), SeedEmployee), Resp(200, ""))

(***************************************************************************)
(* The initial stores: what the start-up code leaves behind.  The body,    *)
(* header and cookie variants drop the database and seed it; the           *)
(* unauthenticated variant starts on an empty database.                    *)
(***************************************************************************)
BodyAdmin ==
    [id |-> 1, username |-> "admin", password |-> "admin123", role |-> "admin",
     salary |-> 50000, empId |-> "ADMIN001"]

SeedOf(v) ==
    IF v = "body" THEN World({BodyAdmin}, <<>>, 2, "")
    ELSE IF v = "open" THEN World({}, <<>>, 1, "")
    ELSE World({[SeedAdmin EXCEPT !.id = 1], [SeedEmployee EXCEPT !.id = 2]}, <<>>, 3, "")

\* before: the stores as the request found them.
NoLast == [route |-> "", req |-> NoReq, resp |-> Resp(0, ""), before |-> World({}, <<>>, 0, "")]

InitIn(sc) ==
    /\ scope = sc
    /\ variant \in Variants
    /\ employees = SeedOf(variant).emps
    /\ attendance = SeedOf(variant).atts
    /\ nextId = SeedOf(variant).nextId
    /\ cookie = ""
    /\ last = NoLast
    /\ procs = <<>>

(***************************************************************************)
(* The requests the clients send.  Spec ("auth") sends every route with    *)
(* every kind of caller; SpecAttendance and SpecSalary send the routes of  *)
(* their subject, as an administrator, with more dates, statuses and       *)
(* months.                                                                 *)
(***************************************************************************)
\* An ObjectId no document has: the store never hands it out.
GhostId == MaxId + 1

Mar31(t) == MakeDate(2025, 2, 31, t)

Apr1(t) == MakeDate(2025, 3, 1, t)

Dates ==
    IF scope = "attendance" THEN {Mar31(0), Mar31(LastTick), Apr1(0), Apr1(LastTick), NoDate}
    ELSE IF scope = "self" THEN {Mar31(0), Apr1(0)}
    ELSE IF scope = "salary" THEN {Mar31(LastTick), Apr1(0)}
    ELSE {Mar31(0), NoDate, BadDate}

Months ==
    IF scope = "salary" THEN {3, 4, Absent}
    ELSE IF scope = "auth" THEN {3, 13, Absent}
    ELSE {3, Absent}

Statuses ==
    IF scope = "attendance" THEN {"", "present", "absent"}
    ELSE IF scope \in {"salary", "self"} THEN {"present", "absent"}
    ELSE {"present", "leave", "holiday"}

Targets ==
    IF scope = "auth" THEN {2, GhostId}
    ELSE IF scope = "salary" THEN {0, 1, 2, GhostId}
    ELSE IF scope = "self" THEN {2, 3}
    ELSE {0, 2, GhostId}

\* username and password of the caller (body variant)
Creds ==
    IF scope = "auth"
    THEN {<<"admin", "admin123">>, <<"admin", "p1">>, <<"u1", "p1">>, <<"ghost", "p1">>, <<"", "">>}
    ELSE IF scope = "salary" THEN {<<"admin", "admin123">>, <<"u1", "p1">>}
    ELSE IF scope = "self" THEN {<<"admin", "admin123">>, <<"u1", "p1">>, <<"u2", "p1">>}
    ELSE {<<"admin", "admin123">>}

\* email and password (login of the other variants)
Logins ==
    IF scope = "auth"
    THEN {<<"admin@pavakie.com", "admin123">>, <<"employee@pavakie.com", "emp123">>,
          <<"employee@pavakie.com", "admin123">>, <<"ghost@pavakie.com", "emp123">>}
    ELSE {<<"admin@pavakie.com", "admin123">>}

\* the x-user-email header (header variant)
Emails ==
    IF scope = "auth" THEN {"admin@pavakie.com", "employee@pavakie.com", "ghost@pavakie.com", ""}
    ELSE {"admin@pavakie.com"}

By(c) == [NoReq EXCEPT !.username = c[1], !.password = c[2]]

From(email) == [NoReq EXCEPT !.username = email]

\* The caller of a route behind auth: the header variant sends its email in
\* a header, the cookie variant sends its cookie jar, the unauthenticated
\* variant sends nothing.
Callers == IF variant = "header" THEN {From(e) : e \in Emails} ELSE {NoReq}

W == World(employees, attendance, nextId, cookie)

\* The documents the requests of a behaviour have added: the dates they send
\* start with the last of March, the documents of an earlier day were there
\* from the start.
Added(atts) == Cardinality({i \in 1..Len(atts) : atts[i].date >= Mar31(0)})

\* One request served: the handler's effect on the stores and its response.
Serve(route, req, out) ==
    /\ last = NoLast
    /\ Added(out.w.atts) <= MaxAtt
    /\ out.w.nextId <= MaxId + 1 \/ out.w.nextId = nextId
    /\ employees' = out.w.emps
    /\ attendance' = out.w.atts
    /\ nextId' = out.w.nextId
    /\ cookie' = out.w.cookie
    /\ last' = [route |-> route, req |-> req, resp |-> out.resp, before |-> W]
    /\ UNCHANGED <<variant, procs, scope>>

\* The response has gone out; the server waits for the next request.
Deliver ==
    /\ last # NoLast
    /\ last' = NoLast
    /\ UNCHANGED <<variant, employees, attendance, nextId, cookie, procs, scope>>

(***************************************************************************)
(* Routes of the body-credential variant.                                  *)
(***************************************************************************)
PostAdminLogin ==
    /\ variant = "body"
    /\ \E c \in Creds : Serve("/admin/login", By(c), AdminLogin(W, By(c)))

PostEmployeeLogin ==
    /\ variant = "body"
    /\ \E c \in Creds : Serve("/employee/login", By(c), EmployeeLogin(W, By(c)))

NewEmployees ==
    IF scope = "auth"
    THEN {[name |-> "A", username_new |-> "u1", empId |-> "E1", salary |-> 0],
          [name |-> "", username_new |-> "u2", empId |-> "E2", salary |-> 0]}
    ELSE {[name |-> "A", username_new |-> "u1", empId |-> "E1", salary |-> 0],
          [name |-> "B", username_new |-> "u2", empId |-> "E2", salary |-> 1000]}

PostAdminEmployeesCreate ==
    /\ variant = "body"
    /\ \E c \in Creds, n \in NewEmployees :
        LET req == [By(c) EXCEPT !.name = n.name, !.username_new = n.username_new,
                                 !.password_new = "p1", !.empId = n.empId, !.salary = n.salary]
        IN Serve("/admin/employees/create", req, Chain(W, req, adminOnly, AdminEmployeesCreate))

PostAdminEmployeesList ==
    /\ variant = "body"
    /\ \E c \in Creds :
        Serve("/admin/employees/list", By(c), Chain(W, By(c), adminOnly, AdminEmployeesList))

PostAdminEmployeesGet ==
    /\ variant = "body"
    /\ \E c \in Creds, id \in Targets :
        LET req == [By(c) EXCEPT !.employeeId = id]
        IN Serve("/admin/employees/get", req, Chain(W, req, adminOnly, AdminEmployeesGet))

Updates == {[username_new |-> "", salary |-> 1000], [username_new |-> "admin", salary |-> 0]}

PostAdminEmployeesUpdate ==
    /\ variant = "body"
    /\ \E c \in Creds, id \in Targets, u \in Updates :
        LET req == [By(c) EXCEPT !.employeeId = id, !.username_new = u.username_new,
                                 !.salary = u.salary]
        IN Serve("/admin/employees/update", req, Chain(W, req, adminOnly, AdminEmployeesUpdate))

PostAdminEmployeesDelete ==
    /\ variant = "body"
    /\ \E c \in Creds, id \in Targets :
        LET req == [By(c) EXCEPT !.employeeId = id]
        IN Serve("/admin/employees/delete", req, Chain(W, req, adminOnly, AdminEmployeesDelete))

PostAdminAttendanceMark ==
    /\ variant = "body"
    /\ \E c \in Creds, id \in Targets, d \in Dates, st \in Statuses :
        LET req == [By(c) EXCEPT !.employeeId = id, !.date = d, !.status = st]
        IN Serve("/admin/attendance/mark", req, Chain(W, req, adminOnly, AdminAttendanceMark))

PostAdminAttendanceView ==
    /\ variant = "body"
    /\ \E c \in Creds, id \in Targets, m \in Months :
        LET req == [By(c) EXCEPT !.employeeId = id, !.month = m,
                                 !.year = IF m = Absent THEN Absent ELSE 2025]
        IN Serve("/admin/attendance/view", req, Chain(W, req, adminOnly, AdminAttendanceView))

PostAdminPayslipGenerate ==
    /\ variant = "body"
    /\ \E c \in Creds, id \in Targets \cup {1}, m \in Months :
        LET req == [By(c) EXCEPT !.employeeId = id, !.month = m, !.year = 2025]
        IN Serve("/admin/payslip/generate", req, Chain(W, req, adminOnly, AdminPayslipGenerate))

PostAdminPayslipPdf ==
    /\ variant = "body"
    /\ \E c \in Creds, id \in Targets \cup {1}, m \in Months :
        LET req == [By(c) EXCEPT !.employeeId = id, !.month = m, !.year = 2025]
        IN Serve("/admin/payslip/pdf", req, Chain(W, req, adminOnly, AdminPayslipPdf))

PostEmployeeMe ==
    /\ variant = "body"
    /\ \E c \in Creds, id \in Targets :
        LET req == [By(c) EXCEPT !.employeeId = id]
        IN Serve("/employee/me", req, Chain(W, req, employeeOnly, EmployeeMe))

PostEmployeeAttendance ==
    /\ variant = "body"
    /\ \E c \in Creds, id \in Targets, m \in Months :
        LET req == [By(c) EXCEPT !.employeeId = id, !.month = m,
                                 !.year = IF m = Absent THEN Absent ELSE 2025]
        IN Serve("/employee/attendance", req, Chain(W, req, employeeOnly, EmployeeAttendance))

PostEmployeePayslip ==
    /\ variant = "body"
    /\ \E c \in Creds, id \in Targets, m \in Months :
        LET req == [By(c) EXCEPT !.employeeId = id, !.month = m, !.year = 2025]
        IN Serve("/employee/payslip", req, Chain(W, req, employeeOnly, EmployeePayslip))

PostEmployeePayslipPdf ==
    /\ variant = "body"
    /\ \E c \in Creds, id \in Targets, m \in Months :
        LET req == [By(c) EXCEPT !.employeeId = id, !.month = m, !.year = 2025]
        IN Serve("/employee/payslip/pdf", req, Chain(W, req, employeeOnly, EmployeePayslipPdf))

(***************************************************************************)
(* Routes of the header-identity, cookie-session and unauthenticated       *)
(* variants.                                                               *)
(***************************************************************************)
PostAuthLogin ==
    /\ variant # "body"
    /\ \E c \in Logins : Serve("/auth/login", By(c), AuthLogin(variant, W, By(c)))

PostAuthLogout ==
    /\ variant = "cookie"
    /\ Serve("/auth/logout", NoReq, AuthLogout(W, NoReq))

GetEmployees ==
    /\ variant # "body"
    /\ \E r \in Callers : Serve("GET /employees", r, Behind(variant, W, r, EmployeesList))

PostEmployees ==
    /\ variant = "header"
    /\ \E r \in Callers, name \in {"", "N"}, role \in {"", "admin"} :
        LET req == [r EXCEPT !.name = name, !.username_new = "new@pavakie.com", !.role = role]
        IN Serve("POST /employees", req, Behind(variant, W, req, EmployeesCreate))

PutEmployees ==
    /\ variant = "open"
    /\ \E r \in Callers, id \in Targets \ {0}, role \in {"", "admin"}, salary \in {0, 1000} :
        LET req == [r EXCEPT !.employeeId = id, !.role = role, !.salary = salary]
        IN Serve("PUT /employees/:id", req, EmployeesUpdateOpen(W, req))

DeleteEmployees ==
    /\ variant \in {"header", "open"}
    /\ \E r \in Callers, id \in Targets \ {0} :
        LET req == [r EXCEPT !.employeeId = id]
        IN Serve("DELETE /employees/:id", req,
                 Behind(variant, W, req,
                        LAMBDA w, q : IF variant = "header" THEN EmployeesDeleteHeader(w, q)
                                      ELSE EmployeesDeleteOpen(w, q)))

PostAttendance ==
    /\ variant # "body"
    /\ \E r \in Callers, id \in Targets, d \in Dates, st \in Statuses :
        LET req == [r EXCEPT !.employeeId = id, !.date = d, !.status = st]
        IN Serve("POST /attendance", req,
                 Behind(variant, W, req, LAMBDA w, q : AttendanceMark(variant, w, q)))

GetAttendance ==
    /\ variant = "open"
    /\ \E id \in Targets \ {0}, m \in Months :
        LET req == [NoReq EXCEPT !.employeeId = id, !.month = m,
                                 !.year = IF m = Absent THEN Absent ELSE 2025]
        IN Serve("GET /attendance", req, Behind(variant, W, req, AttendanceList))

GetSalaryGenerate ==
    /\ variant # "body"
    /\ \E r \in Callers, id \in Targets \cup {1}, m \in Months :
        LET req == [r EXCEPT !.employeeId = id, !.month = m, !.year = 2025]
        IN Serve("/salary/generate", req, Behind(variant, W, req, SalaryGenerate))

GetSalaryPdf ==
    /\ variant # "body"
    /\ \E r \in Callers, id \in Targets \cup {1}, m \in Months :
        LET req == [r EXCEPT !.employeeId = id, !.month = m, !.year = 2025]
        IN Serve("/salary/pdf", req,
                 Behind(variant, W, req, LAMBDA w, q : SalaryPdf(variant, w, q)))

PostSeedDefault ==
    /\ variant = "open"
    /\ Serve("/seed-default", NoReq, Behind(variant, W, NoReq, SeedDefault))

(***************************************************************************)
(* The specifications.                                                     *)
(***************************************************************************)
Init == InitIn("auth")

Next ==
    \/ Deliver
    \/ PostAdminLogin \/ PostEmployeeLogin
    \/ PostAdminEmployeesCreate \/ PostAdminEmployeesList \/ PostAdminEmployeesGet
    \/ PostAdminEmployeesUpdate \/ PostAdminEmployeesDelete
    \/ PostAdminAttendanceMark \/ PostAdminAttendanceView
    \/ PostAdminPayslipGenerate \/ PostAdminPayslipPdf
    \/ PostEmployeeMe \/ PostEmployeeAttendance \/ PostEmployeePayslip \/ PostEmployeePayslipPdf
    \/ PostAuthLogin \/ PostAuthLogout \/ GetEmployees \/ PostEmployees \/ PutEmployees
    \/ DeleteEmployees
    \/ PostAttendance \/ GetAttendance \/ GetSalaryGenerate \/ GetSalaryPdf \/ PostSeedDefault

Spec == Init /\ [][Next]_vars

InitAttendance == InitIn("attendance")

NextAttendance ==
    \/ Deliver
    \/ PostAdminEmployeesCreate \/ PostAdminEmployeesDelete
    \/ PostAdminAttendanceMark \/ PostAdminAttendanceView
    \/ PostAuthLogin \/ DeleteEmployees \/ PostAttendance \/ GetAttendance \/ PostSeedDefault

SpecAttendance == InitAttendance /\ [][NextAttendance]_vars


(***************************************************************************)
(* The attendance-marking handlers step by step: one action per store      *)
(* round trip, so that requests interleave where the handlers await.  The  *)
(* store runs an upsert that matches no document in two steps, the query   *)
(* and then the insert, and another request's write can come between them; *)
(* an update of a matched document is one step.                            *)
(***************************************************************************)
MaxProcs == 2

Procs == 1..MaxProcs

IdleProc == [pc |-> "idle", req |-> NoReq, resp |-> Resp(0, "")]

\* The stores a running system is in when the concurrent requests arrive:
\* the seed, then, where the variant asks for it, an employee created or
\* seeded and the administrator logged in.
ConcStart(v) ==
    IF v = "body"
    THEN AdminEmployeesCreate(SeedOf(v), [NoReq EXCEPT !.name = "A", !.username_new = "u1",
                                                        !.password_new = "p1", !.empId = "E1"],
                              BodyAdmin).w
    ELSE IF v = "open" THEN SeedDefault(SeedOf(v), NoReq).w
    ELSE IF v = "cookie" THEN AuthLogin(v, SeedOf(v), By(<<"admin@pavakie.com", "admin123">>)).w
    ELSE SeedOf(v)

InitConc ==
    /\ scope = "conc"
    /\ variant \in Variants
    /\ employees = ConcStart(variant).emps
    /\ attendance = ConcStart(variant).atts
    /\ nextId = ConcStart(variant).nextId
    /\ cookie = ConcStart(variant).cookie
    /\ last = NoLast
    /\ procs = [p \in Procs |-> IdleProc]

ConcCaller ==
    IF variant = "body" THEN By(<<"admin", "admin123">>)
    ELSE IF variant = "header" THEN From("admin@pavakie.com") ELSE NoReq

Finish(p, resp) == procs' = [procs EXCEPT ![p].pc = "done", ![p].resp = resp]

Goto(p, pc) == procs' = [procs EXCEPT ![p].pc = pc]

\* A mark request arrives.
MarkArrive(p) ==
    /\ procs[p].pc = "idle"
    /\ \E id \in {2, GhostId}, t \in {0, LastTick}, st \in {"present", "absent"} :
        procs' = [procs EXCEPT ![p] = [pc |-> IF variant = "open" THEN "upsert" ELSE "auth",
                                       req |-> [ConcCaller EXCEPT !.employeeId = id,
                                                                  !.date = Mar31(t), !.status = st],
                                       resp |-> Resp(0, "")]]
    /\ UNCHANGED <<variant, employees, attendance, nextId, cookie, last, scope>>

\* The middleware's findOne returns; the role check and the handler's
\* field checks follow without a further store call.
MarkAuth(p) ==
    /\ procs[p].pc = "auth"
    /\ LET req == procs[p].req
           a == IF variant = "body" THEN authenticate(W, req)
                ELSE IF variant = "header" THEN authHeader(W, req) ELSE authCookie(W, req)
       IN IF ~a.ok THEN Finish(p, a.resp)
          ELSE IF variant = "body" /\ ~adminOnly(a.user).ok THEN Finish(p, adminOnly(a.user).resp)
          ELSE IF variant = "body" /\ AdminMarkCheck(req).status # 0 THEN Finish(p, AdminMarkCheck(req))
          ELSE IF variant # "body" /\ MarkCheck(req).status # 0 THEN Finish(p, MarkCheck(req))
          ELSE Goto(p, IF variant = "body" THEN "findById" ELSE "upsert")
    /\ UNCHANGED <<variant, employees, attendance, nextId, cookie, last, scope>>

\* Body variant: Employee.findById returns.
MarkFindById(p) ==
    /\ procs[p].pc = "findById"
    /\ IF findById(employees, procs[p].req.employeeId) = NoEmp
       THEN Finish(p, Resp(404, "Employee not found"))
       ELSE Goto(p, "upsert")
    /\ UNCHANGED <<variant, employees, attendance, nextId, cookie, last, scope>>

\* The upsert's query runs in the store: a matched document is updated in
\* the same step, otherwise the store goes on to insert.
MarkUpsert(p) ==
    /\ procs[p].pc = "upsert"
    /\ LET req == procs[p].req
           i == UpsertMatch(attendance, MarkFilter(req))
           r == UpsertWrite(variant, attendance, i, MarkUpdate(variant, req))
       IN IF i = 0 THEN Goto(p, "insert") /\ UNCHANGED attendance
          ELSE Finish(p, MarkDone(W, r).resp) /\ attendance' = MarkDone(W, r).w.atts
    /\ UNCHANGED <<variant, employees, nextId, cookie, last, scope>>

\* The upsert's insert runs in the store.
MarkInsert(p) ==
    /\ procs[p].pc = "insert"
    /\ LET r == UpsertWrite(variant, attendance, 0, MarkUpdate(variant, procs[p].req))
       IN /\ Added(MarkDone(W, r).w.atts) <= MaxAtt
          /\ Finish(p, MarkDone(W, r).resp)
          /\ attendance' = MarkDone(W, r).w.atts
    /\ UNCHANGED <<variant, employees, nextId, cookie, last, scope>>

\* The response goes out and the request is over.
MarkRespond(p) ==
    /\ procs[p].pc = "done"
    /\ procs' = [procs EXCEPT ![p] = [IdleProc EXCEPT !.pc = "closed"]]
    /\ UNCHANGED <<variant, employees, attendance, nextId, cookie, last, scope>>

NextConc ==
    \E p \in Procs :
        \/ MarkArrive(p) \/ MarkAuth(p) \/ MarkFindById(p)
        \/ MarkUpsert(p) \/ MarkInsert(p) \/ MarkRespond(p)

SpecConc == InitConc /\ [][NextConc]_vars

(***************************************************************************)
(* Body variant: a mark racing with /admin/employees/delete.  The delete    *)
(* makes two store calls, findByIdAndDelete and then deleteMany.            *)
(***************************************************************************)
InitConcDelete ==
    /\ scope = "conc"
    /\ variant = "body"
    /\ employees = ConcStart(variant).emps
    /\ attendance = ConcStart(variant).atts
    /\ nextId = ConcStart(variant).nextId
    /\ cookie = ConcStart(variant).cookie
    /\ last = NoLast
    /\ procs = [p \in Procs |-> IdleProc]

\* The middleware of an /admin route of the body variant, then the
\* handler's first check: the response that ends the request, or status 0.
AdminGate(p, check) ==
    LET a == authenticate(W, procs[p].req)
    IN IF ~a.ok THEN a.resp
       ELSE IF ~adminOnly(a.user).ok THEN adminOnly(a.user).resp
       ELSE check

DeleteArrive(p) ==
    /\ procs[p].pc = "idle"
    /\ \E id \in {2, GhostId} :
        procs' = [procs EXCEPT ![p] = [pc |-> "deleteAuth",
                                       req |-> [ConcCaller EXCEPT !.employeeId = id],
                                       resp |-> Resp(0, "")]]
    /\ UNCHANGED <<variant, employees, attendance, nextId, cookie, last, scope>>

DeleteAuth(p) ==
    /\ procs[p].pc = "deleteAuth"
    /\ LET gate == AdminGate(p, IF procs[p].req.employeeId = 0
                                THEN Resp(400, "Employee ID required") ELSE Resp(0, ""))
       IN IF gate.status # 0 THEN Finish(p, gate) ELSE Goto(p, "findByIdAndDelete")
    /\ UNCHANGED <<variant, employees, attendance, nextId, cookie, last, scope>>

\* Employee.findByIdAndDelete returns.
DeleteFind(p) ==
    /\ procs[p].pc = "findByIdAndDelete"
    /\ LET deleted == findById(employees, procs[p].req.employeeId)
       IN IF deleted = NoEmp
          THEN Finish(p, Resp(404, "Employee not found")) /\ UNCHANGED employees
          ELSE Goto(p, "deleteMany") /\ employees' = employees \ {deleted}
    /\ UNCHANGED <<variant, attendance, nextId, cookie, last, scope>>

\* Attendance.deleteMany returns.
DeleteMany(p) ==
    /\ procs[p].pc = "deleteMany"
    /\ attendance' = deleteMany(attendance, procs[p].req.employeeId)
    /\ Finish(p, Resp(200, ""))
    /\ UNCHANGED <<variant, employees, nextId, cookie, last, scope>>

NextConcDelete ==
    \E p \in Procs :
        \/ MarkArrive(p) \/ MarkAuth(p) \/ MarkFindById(p)
        \/ MarkUpsert(p) \/ MarkInsert(p) \/ MarkRespond(p)
        \/ DeleteArrive(p) \/ DeleteAuth(p) \/ DeleteFind(p) \/ DeleteMany(p)

SpecConcDelete == InitConcDelete /\ [][NextConcDelete]_vars

(***************************************************************************)
(* Body variant: concurrent /admin/employees/create and                     *)
(* /admin/employees/update.  The create looks for a taken username or empId *)
(* and then inserts; the update is one findByIdAndUpdate.                   *)
(***************************************************************************)
InitConcEmployees ==
    /\ scope = "conc"
    /\ variant = "body"
    /\ employees = SeedOf(variant).emps
    /\ attendance = SeedOf(variant).atts
    /\ nextId = SeedOf(variant).nextId
    /\ cookie = SeedOf(variant).cookie
    /\ last = NoLast
    /\ procs = [p \in Procs |-> IdleProc]

CreateArrive(p) ==
    /\ procs[p].pc = "idle"
    /\ \E u \in {"u1", "u2"}, id \in {"E1", "E2"} :
        procs' = [procs EXCEPT ![p] = [pc |-> "createAuth",
                                       req |-> [ConcCaller EXCEPT !.name = "A", !.username_new = u,
                                                                  !.password_new = "p1", !.empId = id],
                                       resp |-> Resp(0, "")]]
    /\ UNCHANGED <<variant, employees, attendance, nextId, cookie, last, scope>>

CreateAuth(p) ==
    /\ procs[p].pc = "createAuth"
    /\ LET req == procs[p].req
           gate == AdminGate(p, IF req.name = "" \/ req.username_new = ""
                                   \/ req.password_new = "" \/ req.empId = ""
                                THEN AdminEmployeesCreate(W, req, BodyAdmin).resp ELSE Resp(0, ""))
       IN IF gate.status # 0 THEN Finish(p, gate) ELSE Goto(p, "findOne")
    /\ UNCHANGED <<variant, employees, attendance, nextId, cookie, last, scope>>

\* Employee.findOne({$or: [{username}, {empId}]}) returns.
CreateFindOne(p) ==
    /\ procs[p].pc = "findOne"
    /\ IF \E e \in employees : e.username = procs[p].req.username_new \/ e.empId = procs[p].req.empId
       THEN Finish(p, Resp(400, "Username or Employee ID already exists"))
       ELSE Goto(p, "create")
    /\ UNCHANGED <<variant, employees, attendance, nextId, cookie, last, scope>>

\* Employee.create returns or throws: the insert on the store as it is now.
CreateInsert(p) ==
    /\ procs[p].pc = "create"
    /\ nextId <= MaxId
    /\ LET req == procs[p].req
           made == AdminEmployeesCreate(World({}, attendance, nextId, cookie), req, BodyAdmin)
       IN IF EmployeeDuplicateKey(employees, NoEmp, made.resp.user)
          THEN Finish(p, Resp(500, "E11000 duplicate key error")) /\ UNCHANGED <<employees, nextId>>
          ELSE /\ Finish(p, made.resp)
               /\ employees' = employees \cup made.w.emps
               /\ nextId' = made.w.nextId
    /\ UNCHANGED <<variant, attendance, cookie, last, scope>>

UpdateArrive(p) ==
    /\ procs[p].pc = "idle"
    /\ \E id \in {1, 2}, u \in {"u1", "u2"} :
        procs' = [procs EXCEPT ![p] = [pc |-> "updateAuth",
                                       req |-> [ConcCaller EXCEPT !.employeeId = id, !.username_new = u],
                                       resp |-> Resp(0, "")]]
    /\ UNCHANGED <<variant, employees, attendance, nextId, cookie, last, scope>>

UpdateAuth(p) ==
    /\ procs[p].pc = "updateAuth"
    /\ LET gate == AdminGate(p, IF procs[p].req.employeeId = 0
                                THEN Resp(400, "Employee ID required") ELSE Resp(0, ""))
       IN IF gate.status # 0 THEN Finish(p, gate) ELSE Goto(p, "findByIdAndUpdate")
    /\ UNCHANGED <<variant, employees, attendance, nextId, cookie, last, scope>>

\* Employee.findByIdAndUpdate returns or throws.
UpdateWrite(p) ==
    /\ procs[p].pc = "findByIdAndUpdate"
    /\ Finish(p, AdminEmployeesUpdate(W, procs[p].req, BodyAdmin).resp)
    /\ employees' = AdminEmployeesUpdate(W, procs[p].req, BodyAdmin).w.emps
    /\ UNCHANGED <<variant, attendance, nextId, cookie, last, scope>>

NextConcEmployees ==
    \E p \in Procs :
        \/ CreateArrive(p) \/ CreateAuth(p) \/ CreateFindOne(p) \/ CreateInsert(p)
        \/ UpdateArrive(p) \/ UpdateAuth(p) \/ UpdateWrite(p)
        \/ MarkRespond(p)

SpecConcEmployees == InitConcEmployees /\ [][NextConcEmployees]_vars

(***************************************************************************)
(* Body variant: the self-service routes with two employees in the store.  *)
(***************************************************************************)
InitSelf == InitIn("self") /\ variant = "body"

NextSelf ==
    \/ Deliver
    \/ PostAdminEmployeesCreate \/ PostAdminAttendanceMark
    \/ PostEmployeeMe \/ PostEmployeeAttendance
    \/ PostEmployeePayslip \/ PostEmployeePayslipPdf

SpecSelf == InitSelf /\ [][NextSelf]_vars

\* The salary routes start from a running system: an employee exists (id 2:
\* created, seeded at start-up or by /seed-default), the cookie variant's
\* administrator is logged in, and the employee has been marked present on
\* each of the first n days of March 2025, for n one of Runs.
Runs == {0, 5, 20}

RunMark(day) == [employeeId |-> 2, date |-> MakeDate(2025, 2, day, 0), status |-> "present"]

\* The store after the first n days are marked, one request after another
\* (each request is served on the store the previous one left).
RECURSIVE MarkRun(_, _, _)
MarkRun(v, w, n) ==
    IF n = 0 THEN w
    ELSE LET req == [NoReq EXCEPT !.employeeId = RunMark(n).employeeId, !.date = RunMark(n).date,
                                  !.status = RunMark(n).status]
         IN CHOOSE after \in { IF v = "body" THEN AdminAttendanceMark(prev, req, BodyAdmin).w
                                ELSE AttendanceMark(v, prev, req).w : prev \in {MarkRun(v, w, n - 1)} } : TRUE

InitSalary ==
    /\ scope = "salary"
    /\ variant \in Variants
    /\ \E n \in Runs :
        /\ employees = MarkRun(variant, ConcStart(variant), n).emps
        /\ attendance = MarkRun(variant, ConcStart(variant), n).atts
        /\ nextId = MarkRun(variant, ConcStart(variant), n).nextId
        /\ cookie = MarkRun(variant, ConcStart(variant), n).cookie
    /\ last = NoLast
    /\ procs = <<>>

NextSalary ==
    \/ Deliver
    \/ PostAdminEmployeesCreate \/ PostAdminAttendanceMark
    \/ PostAdminPayslipGenerate \/ PostAdminPayslipPdf
    \/ PostEmployeePayslip \/ PostEmployeePayslipPdf
    \/ PostAttendance \/ GetSalaryGenerate \/ GetSalaryPdf

SpecSalary == InitSalary /\ [][NextSalary]_vars

\* The body variant after all but the last day, or every day, of March is
\* marked present for the employee.
FullRuns == {30, 31}

InitMonth ==
    /\ scope = "salary"
    /\ variant = "body"
    /\ \E n \in FullRuns :
        /\ employees = MarkRun(variant, ConcStart(variant), n).emps
        /\ attendance = MarkRun(variant, ConcStart(variant), n).atts
        /\ nextId = MarkRun(variant, ConcStart(variant), n).nextId
        /\ cookie = MarkRun(variant, ConcStart(variant), n).cookie
    /\ last = NoLast
    /\ procs = <<>>

NextMonth ==
    \/ Deliver
    \/ PostAdminAttendanceMark
    \/ PostAdminPayslipGenerate
    \/ PostEmployeePayslip

SpecMonth == InitMonth /\ [][NextMonth]_vars

(***************************************************************************)
(* Requests served while the store fails: the call that rejects is the     *)
(* middleware's findOne or, behind a middleware that let the caller        *)
(* through, the handler's find.  A call that rejects writes nothing.       *)
(***************************************************************************)
PostAdminEmployeesListStoreDown ==
    /\ variant = "body"
    /\ \E c \in Creds, call \in {"findOne", "find"} :
        \E resp \in IF call = "findOne" THEN authStoreDown(variant, W, By(c))
                    ELSE IF Chain(W, By(c), adminOnly, AdminEmployeesList).resp.ran
                    THEN EmployeesListStoreDown(variant) ELSE {} :
            Serve("/admin/employees/list", By(c), Out(W, resp))

GetEmployeesStoreDown ==
    /\ variant # "body"
    /\ \E r \in Callers, call \in {"findOne", "find"} :
        \E resp \in IF call = "findOne"
                    THEN IF variant = "open" THEN {} ELSE authStoreDown(variant, W, r)
                    ELSE IF Behind(variant, W, r, EmployeesList).resp.ran
                    THEN EmployeesListStoreDown(variant) ELSE {} :
            Serve("GET /employees", r, Out(W, resp))

NextFail ==
    \/ Deliver
    \/ PostAdminEmployeesList \/ PostAdminEmployeesListStoreDown
    \/ PostAdminAttendanceMark
    \/ PostAuthLogin \/ GetEmployees \/ GetEmployeesStoreDown
    \/ PostAttendance

SpecFail == Init /\ [][NextFail]_vars

(***************************************************************************)
(* Properties.  last.before is the store a request found, the variables    *)
(* are the store it left.                                                  *)
(***************************************************************************)

\* C1: in the body variant, however the steps of concurrent mark requests
\* for one employee and one day interleave, the store never holds two
\* attendance documents for the same employee and the same calendar day.
C1_OneRecordPerDay ==
    variant = "body" =>
        \A i, j \in 1..Len(attendance) :
            (attendance[i].employee = attendance[j].employee
             /\ DayOf(attendance[i].date) = DayOf(attendance[j].date)) => i = j

\* Two requests raced past the upsert's query; one inserted, the store
\* refused the other.
C1_RaceRefused ==
    /\ variant = "body"
    /\ Len(attendance) = 1
    /\ \E p, q \in Procs :
        /\ procs[p].pc = "done" /\ procs[p].resp.status = 200
        /\ procs[q].pc = "done" /\ procs[q].resp.status = 500
        /\ procs[p].req.employeeId = procs[q].req.employeeId
        /\ DayOf(procs[p].req.date) = DayOf(procs[q].req.date)

\* C2: a mark served on a store that already holds a document for the
\* employee and the day changes that document in place: the number of
\* documents is unchanged, exactly one document is held for the pair, and it
\* has the status the request supplied; and serving the same request once
\* more leaves the store as it is.
C2_MarkedInPlace ==
    (last.route \in {"/admin/attendance/mark", "POST /attendance"} /\ last.resp.status = 200) =>
        LET req == last.req
            held(atts) == {i \in 1..Len(atts) : /\ atts[i].employee = req.employeeId
                                                /\ DayOf(atts[i].date) = DayOf(req.date)}
            again == IF variant = "body" THEN Chain(W, req, adminOnly, AdminAttendanceMark)
                     ELSE Behind(variant, W, req, LAMBDA w, q : AttendanceMark(variant, w, q))
        IN /\ held(last.before.atts) # {} =>
                /\ Len(attendance) = Len(last.before.atts)
                /\ Cardinality(held(attendance)) = 1
                /\ req.status # "" => \A i \in held(attendance) : attendance[i].status = req.status
           /\ Cardinality(held(attendance)) = 1
           /\ again.resp.status = 200
           /\ again.w.atts = attendance

\* A mark changed the status of the document held for its employee and day,
\* with a second document in the store.
C2_StatusReplaced ==
    /\ last.route \in {"/admin/attendance/mark", "POST /attendance"}
    /\ last.resp.status = 200
    /\ Len(last.before.atts) = 2
    /\ \E i \in 1..Len(last.before.atts) :
        /\ last.before.atts[i].employee = last.req.employeeId
        /\ DayOf(last.before.atts[i].date) = DayOf(last.req.date)
        /\ last.req.status # ""
        /\ last.before.atts[i].status # last.req.status

\* C3: the presentDays of a payslip is the number of the employee's
\* documents with status present whose date falls in the requested year and
\* month, whatever else the store holds and in whatever order it was
\* written.
C3_PresentDaysCounted ==
    (/\ last.route \in {"/admin/payslip/generate", "/admin/payslip/pdf", "/employee/payslip",
                        "/employee/payslip/pdf", "/salary/generate", "/salary/pdf"}
     /\ last.resp.status = 200) =>
        LET id == IF last.route \in {"/employee/payslip", "/employee/payslip/pdf"}
                  THEN (CHOOSE e \in employees : e.username = last.req.username).id
                  ELSE last.req.employeeId
        IN last.resp.presentDays =
               Cardinality({i \in 1..Len(attendance) :
                              /\ attendance[i].employee = id
                              /\ attendance[i].status = "present"
                              /\ GetFullYear(attendance[i].date) = last.req.year
                              /\ GetMonth(attendance[i].date) + 1 = last.req.month})

\* Five present days of March 2025 give presentDays 5, with a day of March
\* marked absent and a day of April marked present in the store as well.
C3_FiveDaysOfMarch ==
    /\ last.route \in {"/admin/payslip/generate", "/employee/payslip", "/salary/generate"}
    /\ last.resp.status = 200
    /\ last.req.month = 3
    /\ last.resp.presentDays = 5
    /\ \E i, j \in 1..Len(attendance) :
        /\ attendance[i].employee = last.resp.user.id
        /\ attendance[i].status = "absent"
        /\ GetMonth(attendance[i].date) = 2
        /\ attendance[j].employee = last.resp.user.id
        /\ attendance[j].status = "present"
        /\ GetMonth(attendance[j].date) = 3

\* C4: the calculatedSalary of a payslip is the monthly salary divided by 30
\* and multiplied by presentDays, rounded to the nearest hundredth in the
\* body variant and to the nearest integer in the others: a salary of 30000
\* with 20 present days gives 20000, and no present day gives 0.
C4_SalaryProrated ==
    (/\ last.route \in {"/admin/payslip/generate", "/admin/payslip/pdf", "/employee/payslip",
                        "/employee/payslip/pdf", "/salary/generate", "/salary/pdf"}
     /\ last.resp.status = 200) =>
        LET salary == last.resp.user.salary
            days == last.resp.presentDays
            calc == last.resp.calculatedSalary
            off == 30 * calc - salary * days * 100
        IN /\ days >= 0
           /\ IF variant = "body" THEN 0 - 15 <= off /\ off <= 15
              ELSE calc % 100 = 0 /\ 0 - 1500 <= off /\ off <= 1500
           /\ days = 0 => calc = 0
           /\ (salary = 30000 /\ days = 20) => calc = 2000000

\* A salary of 30000 with 20 present days: the payslip says 20000.
C4_TwentyDays ==
    /\ last.route \in {"/admin/payslip/generate", "/employee/payslip", "/salary/generate"}
    /\ last.resp.status = 200
    /\ last.resp.user.salary = 30000
    /\ last.resp.presentDays = 20
    /\ last.resp.calculatedSalary = 2000000

\* C5: on the login routes and in the body variant's authenticate, an
\* existing identifier with a wrong secret gets the response, status and
\* body, that an identifier nobody has gets: status 401 and one message.
C5_SameRefusal ==
    LET known(emps) == {e.username : e \in emps}
        wrong(emps, u, p) == /\ u \in known(emps)
                             /\ p # ""
                             /\ ~\E e \in emps : e.username = u /\ e.password = p
        strangers == {"ghost", "ghost@pavakie.com"} \ known(employees)
        secrets == {e.password : e \in employees} \cup {"wrong"}
        answers(w, u, p) ==
            IF variant = "body"
            THEN <<AdminLogin(w, By(<<u, p>>)).resp, EmployeeLogin(w, By(<<u, p>>)).resp,
                   authenticate(w, By(<<u, p>>)).resp>>
            ELSE <<AuthLogin(variant, w, By(<<u, p>>)).resp>>
    IN /\ \A u \in known(employees), g \in strangers, p, q \in secrets :
            wrong(employees, u, p) =>
                /\ answers(W, u, p) = answers(W, g, q)
                /\ \A k \in DOMAIN answers(W, u, p) : answers(W, u, p)[k].status = 401
       /\ (/\ last.route # ""
           /\ variant = "body" \/ last.route = "/auth/login"
           /\ wrong(last.before.emps, last.req.username, last.req.password)) =>
                /\ last.resp.status = 401
                /\ \A g \in strangers :
                    last.resp = IF last.route = "/admin/login" THEN answers(last.before, g, "wrong")[1]
                                ELSE IF last.route = "/employee/login" THEN answers(last.before, g, "wrong")[2]
                                ELSE IF variant = "body" THEN answers(last.before, g, "wrong")[3]
                                ELSE answers(last.before, g, "wrong")[1]

\* A login with an existing identifier and a wrong secret was refused.
C5_WrongSecretRefused ==
    /\ last.route \in {"/admin/login", "/employee/login", "/auth/login"}
    /\ last.resp.status = 401
    /\ last.req.password # ""
    /\ \E e \in last.before.emps : e.username = last.req.username
    /\ ~\E e \in last.before.emps : e.username = last.req.username /\ e.password = last.req.password

\* C6: in the body variant a caller with valid employee credentials gets 403
\* from every /admin route but the login, and a caller with valid
\* administrator credentials gets 403 from every /employee route but the
\* login; the handler does not run and the stores are as they were.
C6_RoleSeparation ==
    variant = "body" =>
        LET is(role) == \E e \in last.before.emps : /\ e.username = last.req.username
                                                    /\ e.password = last.req.password
                                                    /\ e.role = role
            refused == /\ last.resp.status = 403
                       /\ ~last.resp.ran
                       /\ W = last.before
        IN /\ (/\ last.route \in {"/admin/employees/create", "/admin/employees/list",
                                  "/admin/employees/get", "/admin/employees/update",
                                  "/admin/employees/delete", "/admin/attendance/mark",
                                  "/admin/attendance/view", "/admin/payslip/generate",
                                  "/admin/payslip/pdf"}
               /\ is("employee")) => refused
           /\ (/\ last.route \in {"/employee/me", "/employee/attendance", "/employee/payslip",
                                  "/employee/payslip/pdf"}
               /\ is("admin")) => refused

\* An employee asked /admin/employees/delete to delete an employee who
\* exists, and was refused.
C6_EmployeeRefused ==
    /\ variant = "body"
    /\ last.route = "/admin/employees/delete"
    /\ last.resp.status = 403
    /\ \E e \in employees : /\ e.username = last.req.username /\ e.password = last.req.password
                            /\ e.role = "employee"
    /\ \E e \in employees : e.id = last.req.employeeId

\* C7: after a delete that reports success no attendance document names the
\* deleted employee.
C7_DeleteCascades ==
    (/\ last.route \in {"/admin/employees/delete", "DELETE /employees/:id"}
     /\ last.resp.status = 200) =>
        \A i \in 1..Len(attendance) : attendance[i].employee # last.req.employeeId

\* C8: a mark that names an employee nobody has, and is otherwise in order,
\* is answered 404 and writes nothing.
C8_UnknownEmployeeRejected ==
    (/\ last.route \in {"/admin/attendance/mark", "POST /attendance"}
     /\ last.resp.status \notin {400, 401, 403}
     /\ last.req.employeeId # 0
     /\ last.req.date # NoDate
     /\ ~\E e \in last.before.emps : e.id = last.req.employeeId) =>
        /\ last.resp.status = 404
        /\ attendance = last.before.atts

\* C9: a payslip asked, with month and year, for an employee nobody has is
\* answered with a JSON error of status 404 and no payslip.
C9_UnknownEmployeeNotFound ==
    (/\ last.route \in {"/admin/payslip/generate", "/admin/payslip/pdf", "/salary/generate",
                        "/salary/pdf"}
     /\ last.resp.status \notin {400, 401, 403}
     /\ last.req.employeeId # 0
     /\ last.req.month # Absent
     /\ last.req.year # Absent
     /\ ~\E e \in last.before.emps : e.id = last.req.employeeId) =>
        /\ last.resp.status = 404
        /\ last.resp.kind = "json"
        /\ last.resp.presentDays = 0 - 1

\* C10: a PDF route sets its headers and writes its document only after the
\* salary computation has returned; when the caller is not authenticated or
\* has the wrong role, a field is missing or the employee does not exist, the
\* response is a JSON error and nothing of a PDF has been written.
C10_PdfAfterComputation ==
    last.route \in {"/admin/payslip/pdf", "/employee/payslip/pdf", "/salary/pdf"} =>
        LET ev == last.resp.events
            req == last.req
            b == last.before
            pdfCalls == {"setHeader", "pipe", "text", "end"}
            caller == IF variant = "cookie" THEN {e \in b.emps : e.username = b.cookie}
                      ELSE IF variant = "header" THEN {e \in b.emps : e.username = req.username}
                      ELSE {e \in b.emps : e.username = req.username /\ e.password = req.password}
            role == IF last.route = "/admin/payslip/pdf" THEN "admin" ELSE "employee"
            target == IF last.route = "/employee/payslip/pdf" THEN {e.id : e \in caller}
                      ELSE {req.employeeId}
            failed == \/ variant # "open" /\ caller = {}
                      \/ variant = "body" /\ \E e \in caller : e.role # role
                      \/ req.month = Absent \/ req.year = Absent
                      \/ \A id \in target : ~\E e \in b.emps : e.id = id
        IN /\ \A i \in DOMAIN ev :
                ev[i] \in pdfCalls =>
                    \E j \in 1..(i - 1) : ev[j] \in {"calculateSalary", "calcSalaryForMonth"}
           /\ failed => last.resp.status # 200
           /\ last.resp.status # 200 =>
                /\ last.resp.kind = "json"
                /\ \A i \in DOMAIN ev : ev[i] \notin pdfCalls
           /\ last.resp.status = 200 => last.resp.kind = "pdf" /\ ~failed

\* A PDF was asked for an employee nobody has: the computation threw and the
\* response is a JSON error.
C10_FailedBeforePdf ==
    /\ last.route \in {"/admin/payslip/pdf", "/salary/pdf"}
    /\ last.resp.status = 500
    /\ last.resp.kind = "json"
    /\ last.resp.events \in {<<"calculateSalary:throw", "json">>, <<"calcSalaryForMonth:throw", "json">>}
    /\ last.req.month # Absent
    /\ ~\E e \in last.before.emps : e.id = last.req.employeeId

\* C11: every stored attendance document has a status of its variant's enum
\* (present, absent, and leave outside the body variant), and a mark for an
\* existing employee and a good date with any other status is answered 400
\* and writes nothing.
C11_StatusInEnum ==
    LET enum == IF variant = "body" THEN {"present", "absent"} ELSE {"present", "absent", "leave"}
    IN /\ \A i \in 1..Len(attendance) : attendance[i].status \in enum
       /\ (/\ last.route \in {"/admin/attendance/mark", "POST /attendance"}
           /\ last.resp.ran
           /\ \E e \in last.before.emps : e.id = last.req.employeeId
           /\ last.req.date \notin {NoDate, BadDate}
           /\ last.req.status \notin enum \cup {""}) =>
                /\ last.resp.status = 400
                /\ attendance = last.before.atts

\* C13: cookie variant.  A login that succeeds sets the cookie to the
\* employee's email, a login that fails leaves the cookie as it was, a
\* logout clears it; a route behind auth is answered 401 exactly when the
\* cookie is not the email of a stored employee, so with the cookie cleared
\* every such request is answered 401.
C13_CookieSession ==
    variant = "cookie" =>
        /\ (last.route = "/auth/login" /\ last.resp.status = 200) =>
                /\ cookie = last.req.username
                /\ \E e \in employees : e.username = cookie /\ e.password = last.req.password
        /\ (last.route = "/auth/login" /\ last.resp.status # 200) =>
                /\ cookie = last.before.cookie
                /\ ~\E e \in employees : /\ e.username = last.req.username
                                         /\ e.password = last.req.password
        /\ last.route = "/auth/logout" => cookie = ""
        /\ last.route \in {"GET /employees", "POST /attendance", "/salary/generate", "/salary/pdf"} =>
                /\ last.resp.status # 401 <=>
                       (last.before.cookie # ""
                        /\ \E e \in last.before.emps : e.username = last.before.cookie)
                /\ last.resp.status = 401 => ~last.resp.ran /\ W = last.before
                /\ cookie = last.before.cookie

\* With the cookie cleared, a mark that is otherwise in order was answered
\* 401.
C13_RefusedWithoutCookie ==
    /\ variant = "cookie"
    /\ last.route = "POST /attendance"
    /\ last.before.cookie = ""
    /\ last.resp.status = 401
    /\ last.req.employeeId = 2
    /\ last.req.date = Mar31(0)
    /\ last.req.status = "present"

\* C18: header and cookie variants: a caller that auth resolves to an
\* employee of role employee is answered 403 by POST /employees, DELETE
\* /employees/:id and POST /attendance, and the stores are unchanged.
C18_EmployeeForbidden ==
    (/\ variant \in {"header", "cookie"}
     /\ last.route \in {"POST /employees", "DELETE /employees/:id", "POST /attendance"}
     /\ \E e \in last.before.emps :
            /\ e.role = "employee"
            /\ e.username = IF variant = "header" THEN last.req.username ELSE last.before.cookie) =>
        /\ last.resp.status = 403
        /\ W = last.before

\* C19: a mark for an existing employee whose date is given and cannot be
\* parsed is answered 400 and writes nothing.
C19_BadDateRejected ==
    (/\ last.route \in {"/admin/attendance/mark", "POST /attendance"}
     /\ last.resp.ran
     /\ \E e \in last.before.emps : e.id = last.req.employeeId
     /\ last.req.status \in {"", "present", "absent"}
     /\ last.req.date = BadDate) =>
        /\ last.resp.status = 400
        /\ attendance = last.before.atts

\* C20: a payslip request with a month outside 1..12 is rejected: it is
\* never answered with a payslip.
C20_MonthInRange ==
    (/\ last.route \in {"/admin/payslip/generate", "/admin/payslip/pdf", "/employee/payslip",
                        "/employee/payslip/pdf", "/salary/generate", "/salary/pdf"}
     /\ last.req.month # Absent
     /\ last.req.month \notin 1..12) =>
        /\ last.resp.status # 200
        /\ last.resp.presentDays = 0 - 1

\* C12: every salary route, JSON or PDF, answers a request that reaches its
\* handler without employeeId, month or year (the self-service routes:
\* without month or year) with 400 and computes no payslip.
C12_MissingFieldsRejected ==
    (/\ last.route \in {"/admin/payslip/generate", "/admin/payslip/pdf", "/employee/payslip",
                        "/employee/payslip/pdf", "/salary/generate", "/salary/pdf"}
     /\ last.resp.ran
     /\ \/ last.req.month = Absent
        \/ last.req.year = Absent
        \/ /\ last.route \notin {"/employee/payslip", "/employee/payslip/pdf"}
           /\ last.req.employeeId = 0) =>
        /\ last.resp.status = 400
        /\ \A i \in DOMAIN last.resp.events :
               last.resp.events[i] \notin {"calculateSalary", "calculateSalary:throw",
                                           "calcSalaryForMonth", "calcSalaryForMonth:throw"}

\* C16: header, cookie and unauthenticated variants: once concurrent marks
\* for one employee and one day have all been answered, the store holds at
\* most one attendance document for that employee and day.
C16_OneRecordPerDayNoIndex ==
    (variant # "body" /\ \A p \in Procs : procs[p].pc \in {"idle", "closed"}) =>
        \A i, j \in 1..Len(attendance) :
            (attendance[i].employee = attendance[j].employee
             /\ DayOf(attendance[i].date) = DayOf(attendance[j].date)) => i = j

\* C15: body variant: however creates and updates interleave, no two
\* employees share a username and no two share an empId; a write that finds
\* its username or empId taken is answered with an error and leaves the
\* Employee store as it was.
C15_UniqueEmployees ==
    /\ [](\A e, f \in employees : (e.username = f.username \/ e.empId = f.empId \/ e.id = f.id) => e = f)
    /\ [][\A p \in Procs :
            (procs[p].pc \in {"findOne", "create", "findByIdAndUpdate"} /\ procs'[p].pc = "done") =>
                LET req == procs[p].req
                    name == req.username_new
                    taken == \E e \in employees :
                                 /\ e.id # req.employeeId
                                 /\ e.username = name \/ (req.empId # "" /\ e.empId = req.empId)
                IN /\ taken => procs'[p].resp.status \in {400, 404, 500}
                   /\ procs'[p].resp.status # 200 => employees' = employees
                   /\ procs'[p].resp.status = 200 =>
                          \E e \in employees' : e.username = name /\ e = procs'[p].resp.user]_vars

\* Two creates of one username raced past the look-up; one inserted and the
\* index refused the other.
C15_CreateRaceRefused ==
    /\ \E p, q \in Procs :
        /\ procs[p].pc = "done" /\ procs[p].resp.status = 200
        /\ procs[q].pc = "done" /\ procs[q].resp.status = 500
        /\ procs[p].req.username_new = procs[q].req.username_new
        /\ procs[p].req.employeeId = 0 /\ procs[q].req.employeeId = 0
    /\ Cardinality(employees) = 2

\* C17: body variant: once every mark and delete in flight has been answered,
\* each attendance document names an employee who is in the Employee store.
C17_NoOrphanAttendance ==
    (\A p \in Procs : procs[p].pc \in {"idle", "closed"}) =>
        \A i \in 1..Len(attendance) : \E e \in employees : e.id = attendance[i].employee

\* C14: body variant: what a self-service route answers an authenticated
\* employee is what it answers on a store holding only that employee's own
\* documents, to the same request with no employeeId in its body; the
\* response shows no document of another employee.
C14_SelfServiceIsolation ==
    (/\ last.route \in {"/employee/me", "/employee/attendance", "/employee/payslip",
                        "/employee/payslip/pdf"}
     /\ last.resp.ran) =>
        LET b == last.before
            me == CHOOSE e \in b.emps : /\ e.username = last.req.username
                                        /\ e.password = last.req.password
            own == World({me}, SelectSeq(b.atts, LAMBDA a : a.employee = me.id), b.nextId, b.cookie)
            bare == [last.req EXCEPT !.employeeId = 0]
            alone == IF last.route = "/employee/me" THEN Chain(own, bare, employeeOnly, EmployeeMe)
                     ELSE IF last.route = "/employee/attendance"
                     THEN Chain(own, bare, employeeOnly, EmployeeAttendance)
                     ELSE IF last.route = "/employee/payslip"
                     THEN Chain(own, bare, employeeOnly, EmployeePayslip)
                     ELSE Chain(own, bare, employeeOnly, EmployeePayslipPdf)
        IN /\ last.resp = alone.resp
           /\ last.resp.user \in {NoEmp, me}
           /\ \A i \in DOMAIN last.resp.docs : last.resp.docs[i].employee = me.id
           /\ W = b

\* An employee with attendance of their own asked for the attendance of
\* another employee who has some, and got their own.
C14_AskedForAnother ==
    /\ last.route = "/employee/attendance"
    /\ last.resp.status = 200
    /\ last.resp.docs # <<>>
    /\ \E e \in employees : /\ e.id = last.req.employeeId
                            /\ e.username # last.req.username
    /\ \E i \in 1..Len(attendance) : attendance[i].employee = last.req.employeeId

\* C26: a request answered 400, 401, 403 or 404 leaves the Employee store
\* and the Attendance store as it found them, in every variant.
C26_RefusalWritesNothing ==
    last.resp.status \in {400, 401, 403, 404} =>
        /\ employees = last.before.emps
        /\ attendance = last.before.atts

\* C21: the role of a stored Employee is the one it was created with: no
\* request changes the role of an Employee that was stored before it, and
\* an Employee created through /admin/employees/create has role employee.
C21_RoleFixedAtCreation ==
    /\ \A old \in last.before.emps : \A emp \in employees :
            emp.id = old.id => emp.role = old.role
    /\ (last.route = "/admin/employees/create" /\ last.resp.status = 200) =>
            last.resp.user.role = "employee"

\* C24: in the body variant no response body but the one of
\* /admin/employees/create carries the stored password of an Employee.
C24_PasswordNeverReturned ==
    (variant = "body" /\ last.route # "/admin/employees/create") =>
        \A emp \in employees : last.resp.password # emp.password

\* C23: the payslip routes leave the Employee and Attendance stores as they
\* found them and report the count of the store as it is at the request;
\* a present mark for a day of the month on which the employee had no
\* present record makes the month's presentDays one higher than before.
C23_PayslipRecomputed ==
    LET slip(w, id, y, m) == IF variant = "body" THEN calculateSalary(w, id, y, m)
                             ELSE calcSalaryForMonth(w, id, y, m)
        day == last.req.date
        y == GetFullYear(day)
        m == GetMonth(day) + 1
    IN /\ last.route \in {"/admin/payslip/generate", "/admin/payslip/pdf", "/employee/payslip",
                          "/employee/payslip/pdf", "/salary/generate", "/salary/pdf"} =>
            /\ employees = last.before.emps
            /\ attendance = last.before.atts
       /\ (/\ last.route \in {"/admin/payslip/generate", "/employee/payslip", "/salary/generate"}
           /\ last.resp.status = 200) =>
            last.resp.presentDays =
                slip(W, last.resp.user.id, last.req.year, last.req.month).presentDays
       /\ (/\ last.route \in {"/admin/attendance/mark", "POST /attendance"}
           /\ last.resp.status = 200
           /\ last.req.status = "present"
           /\ findById(employees, last.req.employeeId) # NoEmp
           /\ \A i \in DOMAIN last.before.atts :
                ~(/\ last.before.atts[i].employee = last.req.employeeId
                  /\ DayOf(last.before.atts[i].date) = DayOf(day)
                  /\ last.before.atts[i].status = "present")) =>
            slip(W, last.req.employeeId, y, m).presentDays =
                slip(last.before, last.req.employeeId, y, m).presentDays + 1

\* A payslip that reports six present days of March: the five of the run
\* and the one marked after it.
C23_SixthDayCounted ==
    /\ last.route \in {"/admin/payslip/generate", "/employee/payslip", "/salary/generate"}
    /\ last.resp.status = 200
    /\ last.req.month = 3
    /\ last.resp.presentDays = 6
    /\ attendance = last.before.atts

\* C25: in the body variant, after any sequence of marks, the payslip of
\* every employee for every month 1..12 has 0 <= presentDays <=
\* totalDaysInMonth, and totalDaysInMonth is the number of days of that
\* month (28..31); a payslip response reports these same numbers.
C25_PresentDaysWithinMonth ==
    LET days == <<31, 28, 31, 30, 31, 30, 31, 31, 30, 31, 30, 31>>
    IN /\ \A emp \in employees : \A m \in 1..12 :
            LET slip == calculateSalary(W, emp.id, 2025, m)
            IN /\ slip.ok
               /\ 0 <= slip.presentDays
               /\ slip.presentDays <= slip.totalDaysInMonth
               /\ slip.totalDaysInMonth = days[m]
       /\ (/\ last.route \in {"/admin/payslip/generate", "/employee/payslip"}
           /\ last.resp.status = 200
           /\ last.req.month \in 1..12) =>
            /\ 0 <= last.resp.presentDays
            /\ last.resp.presentDays <= last.resp.totalDaysInMonth
            /\ last.resp.totalDaysInMonth = days[last.req.month]

\* March is fully marked and its last day is marked again, at another time
\* of the day: the month still has 31 present days.
C25_FullMonthMarkedAgain ==
    /\ last.route = "/admin/attendance/mark"
    /\ last.resp.status = 200
    /\ last.req.status = "present"
    /\ last.req.date = Mar31(LastTick)
    /\ calculateSalary(last.before, last.req.employeeId, 2025, 3).presentDays = 31
    /\ calculateSalary(W, last.req.employeeId, 2025, 3).presentDays = 31

\* C22: with store calls that may fail, every request gets a response, and
\* a request whose store call failed gets a JSON error body with a 4xx or
\* 5xx status.
C22_EveryRequestAnswered ==
    last.route # "" =>
        /\ last.resp.status # 0
        /\ last.resp.kind # "none"
        /\ last.resp.error = "store call failed" =>
            /\ last.resp.kind = "json"
            /\ last.resp.status \in 400..599

====
